---- MODULE Spec2Model ----
(***************************************************************************)
(* EassyPyAI (src/main.py): the topic-to-sentence generation pipeline.     *)
(*                                                                         *)
(* Python strings are modelled as sequences of one-character strings, so   *)
(* that lower(), split(), join() and capitalize() are computed character   *)
(* by character.  The Datamuse service (requests.get) and the spaCy tagger *)
(* (nlp) are the two external collaborators: the service is a mocked       *)
(* table of responses, the tagger output is a sequence of (text, pos_)     *)
(* tokens.                                                                 *)
(***************************************************************************)
EXTENDS Integers, Sequences, FiniteSets, TLC

VARIABLES
    pc,            \* control position of the entry point being run
    args,          \* arguments of the function under call
    ret,           \* its return value (None before it returns)
    requests_get,  \* the mocked service: responses by query
    dt,            \* local variables of determine_topics
    gp,            \* local variables of generate_paragraphs
    mn,            \* local variables and console of main
    ns             \* local variables of the last nlp_based_sentence call

vars == <<pc, args, ret, requests_get, dt, gp, mn, ns>>

None == "None"

(***************************************************************************)
(* Bounds of the model.                                                    *)
(***************************************************************************)
MaxLen == 6          \* longest input phrase of clean_topic_input, in characters
MaxRecords == 3      \* most records in one mocked response body
MaxTokens == 3       \* most tokens handed to determine_topics
MaxSlots == 3        \* most tokens of a tagged template other than create_sentence's
MaxTopics == 2       \* most topics handed to generate_paragraphs
MaxParagraphs == 2   \* largest num_paragraphs handed to generate_paragraphs
MaxPhrase == 2       \* most words of the topic phrase typed into main

(***************************************************************************)
(* Python str primitives.                                                  *)
(***************************************************************************)
CasePairs ==
    { <<"A", "a">>, <<"B", "b">>, <<"C", "c">>, <<"D", "d">>, <<"E", "e">>,
      <<"F", "f">>, <<"G", "g">>, <<"H", "h">>, <<"I", "i">>, <<"J", "j">>,
      <<"K", "k">>, <<"L", "l">>, <<"M", "m">>, <<"N", "n">>, <<"O", "o">>,
      <<"P", "p">>, <<"Q", "q">>, <<"R", "r">>, <<"S", "s">>, <<"T", "t">>,
      <<"U", "u">>, <<"V", "v">>, <<"W", "w">>, <<"X", "x">>, <<"Y", "y">>,
      <<"Z", "z">> }

UpperChars == { p[1] : p \in CasePairs }

Whitespace == { " ", "\t", "\n" }

lower_char(c) ==
    IF c \in UpperChars THEN (CHOOSE p \in CasePairs : p[1] = c)[2] ELSE c

upper_char(c) ==
    IF \E p \in CasePairs : p[2] = c
    THEN (CHOOSE p \in CasePairs : p[2] = c)[1]
    ELSE c

\* str.lower()
lower(s) == [k \in 1..Len(s) |-> lower_char(s[k])]

\* str.capitalize(): first character upper-cased, the rest lower-cased
capitalize(s) ==
    [k \in 1..Len(s) |-> IF k = 1 THEN upper_char(s[k]) ELSE lower_char(s[k])]

\* str.split() with no separator: maximal runs of non-whitespace characters
RECURSIVE split_from(_, _, _)
split_from(s, k, cur) ==
    IF k > Len(s)
    THEN IF cur = <<>> THEN <<>> ELSE <<cur>>
    ELSE IF s[k] \in Whitespace
         THEN IF cur = <<>>
              THEN split_from(s, k + 1, <<>>)
              ELSE <<cur>> \o split_from(s, k + 1, <<>>)
         ELSE split_from(s, k + 1, Append(cur, s[k]))

split(s) == split_from(s, 1, <<>>)

\* sep.join(parts)
RECURSIVE join(_, _)
join(sep, parts) ==
    IF parts = <<>> THEN <<>>
    ELSE IF Len(parts) = 1 THEN parts[1]
    ELSE parts[1] \o sep \o join(sep, Tail(parts))

\* every sequence over S of length at most n
SeqsUpTo(S, n) == UNION { [1..k -> S] : k \in 0..n }

(***************************************************************************)
(* Input Normalizer: clean_topic_input.                                    *)
(***************************************************************************)
STOP_WORDS ==
    { <<"t", "h", "e">>, <<"a">>, <<"a", "n">>, <<"a", "n", "d">>, <<"o", "f">>,
      <<"i", "n">>, <<"o", "n">>, <<"a", "t">>, <<"t", "o">>, <<"i", "s">>,
      <<"f", "o", "r">> }

RECURSIVE filter_stop(_)
filter_stop(words) ==
    IF words = <<>> THEN <<>>
    ELSE IF words[1] \notin STOP_WORDS
         THEN <<words[1]>> \o filter_stop(Tail(words))
         ELSE filter_stop(Tail(words))

\* faulty variant: the stop words are filtered before the phrase is lower-cased
clean_topic_input_nolower(topic_sentence) ==
    [k \in 1..Len(filter_stop(split(topic_sentence)))
        |-> lower(filter_stop(split(topic_sentence))[k])]

clean_topic_input(topic_sentence) ==
    filter_stop(split(lower(topic_sentence)))

(***************************************************************************)
(* Idle values of the frames a specification does not use.                 *)
(***************************************************************************)
NoFrame == [status |-> "idle"]

(***************************************************************************)
(* SpecClean: clean_topic_input applied to every short phrase.             *)
(***************************************************************************)
CleanAlphabet == { "a", "A", "n", "t", " ", "." }

InitClean ==
    /\ pc = "call"
    /\ args \in { [topic_sentence |-> s] : s \in SeqsUpTo(CleanAlphabet, MaxLen) }
    /\ ret = None
    /\ requests_get = None
    /\ dt = NoFrame
    /\ gp = NoFrame
    /\ mn = NoFrame
    /\ ns = NoFrame

CallClean ==
    /\ pc = "call"
    /\ ret' = clean_topic_input(args.topic_sentence)
    /\ pc' = "done"
    /\ UNCHANGED <<args, requests_get, dt, gp, mn, ns>>

NextClean == CallClean

SpecClean == InitClean /\ [][NextClean]_vars

\* the k-th smallest element of a finite set of integers
RECURSIVE kth(_, _)
kth(I, k) ==
    LET m == CHOOSE x \in I : \A y \in I : x <= y
    IN  IF k = 1 THEN m ELSE kth(I \ {m}, k - 1)

\* C7: the output of clean_topic_input is the lower-cased whitespace-separated
\* tokens of the input minus the stop words: it holds no stop word, its tokens
\* are non-empty and free of whitespace and upper case, and they are exactly the
\* non-stop tokens in their original relative order (attached punctuation kept).
C7_CleanNoStopWordsOrderKept ==
    (pc = "done" /\ "topic_sentence" \in DOMAIN args) =>
        LET toks == split(lower(args.topic_sentence))
            keep == { j \in 1..Len(toks) : toks[j] \notin STOP_WORDS }
        IN  /\ \A k \in 1..Len(ret) : ret[k] \notin STOP_WORDS
            /\ \A k \in 1..Len(ret) :
                  /\ ret[k] # <<>>
                  /\ \A n \in 1..Len(ret[k]) :
                        ret[k][n] \notin Whitespace \cup UpperChars
            /\ Len(ret) = Cardinality(keep)
            /\ \A k \in 1..Len(ret) : ret[k] = toks[kth(keep, k)]

\* witness: an upper-case stop word was dropped and a token with attached
\* punctuation survived after it
C7_Witness ==
    /\ pc = "done"
    /\ "topic_sentence" \in DOMAIN args
    /\ args.topic_sentence = <<"A", "n", " ", "a", ".">>
    /\ ret = << <<"a", ".">> >>

(***************************************************************************)
(* Lexical Client: requests.get, fetch_api_data, get_words_by_topic.       *)
(*                                                                         *)
(* A mocked response is a record with a status_code and a json body (a     *)
(* sequence of records, each with or without a 'word' field), or the       *)
(* transport failure ConnectionError, which requests.get raises.  A Python *)
(* call ends in Return(v) or Raise(e).                                     *)
(***************************************************************************)
ConnectionError == [exception |-> "ConnectionError"]

Response(status, body) == [status_code |-> status, json |-> body]

Return(v) == [exc |-> None, value |-> v]
Raise(e) == [exc |-> e, value |-> None]

\* [item['word'] for item in data if 'word' in item]
RECURSIVE words_if_present(_)
words_if_present(data) ==
    IF data = <<>> THEN <<>>
    ELSE IF "word" \in DOMAIN data[1]
         THEN <<data[1].word>> \o words_if_present(Tail(data))
         ELSE words_if_present(Tail(data))

\* [item['word'] for item in data]: a record without the field raises KeyError
all_words(data) ==
    IF \E k \in 1..Len(data) : "word" \notin DOMAIN data[k]
    THEN Raise("KeyError")
    ELSE Return([k \in 1..Len(data) |-> data[k].word])

\* faulty variant: the json body is returned whatever the status code
fetch_api_data_nostatus(response) ==
    IF response = ConnectionError THEN Raise("ConnectionError")
    ELSE Return(response.json)

fetch_api_data(response) ==
    IF response = ConnectionError THEN Raise("ConnectionError")
    ELSE IF response.status_code = 200 THEN Return(response.json)
    ELSE Return(<<>>)

\* faulty variant: the sequential path reads every record's word, present or not
get_words_by_topic_nofilter(response, use_threads) ==
    IF use_threads
    THEN LET data == fetch_api_data(response)
         IN  IF data.exc # None THEN data
             ELSE Return(words_if_present(data.value))
    ELSE IF response = ConnectionError THEN Raise("ConnectionError")
         ELSE IF response.status_code = 200
              THEN all_words(response.json)
              ELSE Return(<<>>)

\* response: what the service answers to the query built from topic_word,
\* part_of_speech and max_words
get_words_by_topic(response, use_threads) ==
    IF use_threads
    THEN LET data == fetch_api_data(response)
         IN  IF data.exc # None THEN data
             ELSE Return(words_if_present(data.value))
    ELSE IF response = ConnectionError THEN Raise("ConnectionError")
         ELSE IF response.status_code = 200
              THEN Return(words_if_present(response.json))
              ELSE Return(<<>>)

(***************************************************************************)
(* SpecWords: get_words_by_topic on every small mocked response, in both   *)
(* modes.                                                                  *)
(***************************************************************************)
w_cat == <<"c", "a", "t">>
w_dog == <<"d", "o", "g">>

WordsRecords == { [word |-> w_cat], [word |-> w_dog, score |-> 1], [score |-> 1] }

WordsResponses ==
    { Response(st, body) :
        st \in {200, 404, 500}, body \in SeqsUpTo(WordsRecords, MaxRecords) }
    \cup { ConnectionError }

InitWords ==
    /\ pc = "call"
    /\ args \in [response : WordsResponses, use_threads : BOOLEAN]
    /\ ret = None
    /\ requests_get = None
    /\ dt = NoFrame
    /\ gp = NoFrame
    /\ mn = NoFrame
    /\ ns = NoFrame

CallWords ==
    /\ pc = "call"
    /\ ret' = get_words_by_topic(args.response, args.use_threads)
    /\ pc' = "done"
    /\ UNCHANGED <<args, requests_get, dt, gp, mn, ns>>

NextWords == CallWords

SpecWords == InitWords /\ [][NextWords]_vars

\* C8: in both modes get_words_by_topic returns, on a 200 response, exactly the
\* word fields of the records that have one, in response order, and on any
\* other status the empty list; it raises in neither case.
C8_WordsOfSuccessElseEmpty ==
    (pc = "done" /\ args.response # ConnectionError) =>
        LET body == args.response.json
            have == { j \in 1..Len(body) : "word" \in DOMAIN body[j] }
        IN  /\ ret.exc = None
            /\ args.response.status_code # 200 => ret.value = <<>>
            /\ args.response.status_code = 200 =>
                  /\ Len(ret.value) = Cardinality(have)
                  /\ \A k \in 1..Len(ret.value) :
                        ret.value[k] = body[kth(have, k)].word

\* witness: the sequential path dropped a record without a word between two
\* records with one
C8_Witness ==
    /\ pc = "done"
    /\ ~args.use_threads
    /\ args.response =
          Response(200, <<[word |-> w_dog, score |-> 1], [score |-> 1], [word |-> w_cat]>>)
    /\ ret = Return(<<w_dog, w_cat>>)

(***************************************************************************)
(* Topic Discovery: determine_topics.                                      *)
(*                                                                         *)
(* The frame dt holds the locals of one call.  Sequential mode walks the   *)
(* words with index i.  Threaded mode submits one future per word          *)
(* (futures[k] is PENDING until it holds the outcome of fetch_api_data);   *)
(* the futures complete in any order (completed), and as_completed hands   *)
(* them to the caller's loop in that order (taken counts them).  An        *)
(* exception leaving the loop waits in the executor's shutdown for the     *)
(* pending futures, then propagates.                                       *)
(***************************************************************************)
Range(f) == { f[k] : k \in DOMAIN f }

\* every ordering of a finite set: list(topics) fixes none
ListsOf(S) ==
    { l \in [1..Cardinality(S) -> S] : Range(l) = S }

PENDING == [state |-> "PENDING"]

dt_call(words, use_threads) ==
    [ status |-> "running", words |-> words, use_threads |-> use_threads,
      topics |-> {}, i |-> 1,
      futures |-> [k \in 1..Len(words) |-> PENDING],
      completed |-> <<>>, taken |-> 0, exc |-> None, result |-> None ]

dt_running == dt.status = "running"

\* one iteration of `for word in words` (sequential mode)
DT_SeqIter ==
    /\ dt_running /\ ~dt.use_threads
    /\ dt.i <= Len(dt.words)
    /\ LET response == requests_get.rel_trg[dt.words[dt.i]]
       IN  IF response = ConnectionError
           THEN dt' = [dt EXCEPT !.status = "raised", !.exc = "ConnectionError"]
           ELSE IF response.status_code = 200
                THEN LET got == all_words(response.json)
                     IN  IF got.exc # None
                         THEN dt' = [dt EXCEPT !.status = "raised", !.exc = got.exc]
                         ELSE dt' = [dt EXCEPT !.topics = @ \cup Range(got.value),
                                               !.i = @ + 1]
                ELSE dt' = [dt EXCEPT !.i = @ + 1]
    /\ UNCHANGED <<pc, args, ret, requests_get, gp, mn, ns>>

\* a worker thread finishes fetch_api_data for the k-th word
DT_WorkerDone ==
    /\ dt.status \in {"running", "shutdown"} /\ dt.use_threads
    /\ \E k \in 1..Len(dt.words) :
          /\ dt.futures[k] = PENDING
          /\ dt' = [dt EXCEPT
                !.futures[k] = fetch_api_data(requests_get.rel_trg[dt.words[k]]),
                !.completed = Append(@, k)]
    /\ UNCHANGED <<pc, args, ret, requests_get, gp, mn, ns>>

\* one iteration of `for future in as_completed(futures)`, on future k
dt_as_completed(k) ==
    LET data == dt.futures[k]
    IN  IF data.exc # None
        THEN [dt EXCEPT !.status = "shutdown", !.exc = data.exc, !.taken = @ + 1]
        ELSE LET got == all_words(data.value)
             IN  IF got.exc # None
                 THEN [dt EXCEPT !.status = "shutdown", !.exc = got.exc,
                                 !.taken = @ + 1]
                 ELSE [dt EXCEPT !.topics = @ \cup Range(got.value),
                                 !.taken = @ + 1]

DT_AsCompleted ==
    /\ dt_running /\ dt.use_threads
    /\ dt.taken < Len(dt.completed)
    /\ dt' = dt_as_completed(dt.completed[dt.taken + 1])
    /\ UNCHANGED <<pc, args, ret, requests_get, gp, mn, ns>>

\* the with-block's exit has joined every worker: the exception propagates
DT_ShutdownRaise ==
    /\ dt.status = "shutdown"
    /\ \A k \in 1..Len(dt.words) : dt.futures[k] # PENDING
    /\ dt' = [dt EXCEPT !.status = "raised"]
    /\ UNCHANGED <<pc, args, ret, requests_get, gp, mn, ns>>

\* return list(topics)
DT_Return ==
    /\ dt_running
    /\ IF dt.use_threads
       THEN dt.taken >= Len(dt.words)
       ELSE dt.i > Len(dt.words)
    /\ \E l \in ListsOf(dt.topics) :
          dt' = [dt EXCEPT !.status = "returned", !.result = l]
    /\ UNCHANGED <<pc, args, ret, requests_get, gp, mn, ns>>

determine_topics ==
    \/ DT_SeqIter
    \/ DT_WorkerDone
    \/ DT_AsCompleted
    \/ DT_ShutdownRaise
    \/ DT_Return

dt_outcome ==
    IF dt.status = "raised" THEN Raise(dt.exc) ELSE Return(dt.result)

(***************************************************************************)
(* SpecTopics: determine_topics called without and then with threads on    *)
(* the same words and the same mocked responses (src/test.py:38-52).       *)
(***************************************************************************)
w_pet == <<"p", "e", "t">>
w_fur == <<"f", "u", "r">>

TopicTokens == { w_cat, w_dog }

TopicsResponses ==
    { Response(200, <<>>),
      Response(200, <<[word |-> w_pet]>>),
      Response(200, <<[word |-> w_fur, score |-> 1], [word |-> w_pet]>>),
      Response(200, <<[score |-> 1]>>),
      Response(404, <<[word |-> w_fur]>>),
      ConnectionError }

InitTopics ==
    /\ pc = "call_seq"
    /\ args \in { [words |-> ws] : ws \in SeqsUpTo(TopicTokens, MaxTokens) }
    /\ ret = [seq |-> None, thr |-> None]
    /\ requests_get \in { [rel_trg |-> f] : f \in [TopicTokens -> TopicsResponses] }
    /\ dt = NoFrame
    /\ gp = NoFrame
    /\ mn = NoFrame
    /\ ns = NoFrame

T_CallSeq ==
    /\ pc = "call_seq"
    /\ dt' = dt_call(args.words, FALSE)
    /\ pc' = "in_seq"
    /\ UNCHANGED <<args, ret, requests_get, gp, mn, ns>>

T_CallThr ==
    /\ pc = "in_seq"
    /\ dt.status \in {"returned", "raised"}
    /\ ret' = [ret EXCEPT !.seq = dt_outcome]
    /\ dt' = dt_call(args.words, TRUE)
    /\ pc' = "in_thr"
    /\ UNCHANGED <<args, requests_get, gp, mn, ns>>

T_Done ==
    /\ pc = "in_thr"
    /\ dt.status \in {"returned", "raised"}
    /\ ret' = [ret EXCEPT !.thr = dt_outcome]
    /\ pc' = "done"
    /\ UNCHANGED <<args, requests_get, dt, gp, mn, ns>>

NextTopics ==
    \/ T_CallSeq
    \/ T_CallThr
    \/ T_Done
    \/ determine_topics

SpecTopics == InitTopics /\ [][NextTopics]_vars

\* the responses the service gives to the tokens of the call
answers == { requests_get.rel_trg[args.words[k]] : k \in 1..Len(args.words) }

\* a success with a word list: status 200 and every record has its word
success(r) ==
    /\ r # ConnectionError
    /\ r.status_code = 200
    /\ \A k \in 1..Len(r.json) : "word" \in DOMAIN r.json[k]

non_success(r) == r # ConnectionError /\ r.status_code # 200

\* C1: when every token's response is a success with a word list or a
\* non-success status, the threaded call returns the same set of topic words as
\* the sequential call, whatever order the futures complete in.
C1_ThreadedEqualsSequential ==
    (pc = "done" /\ \A r \in answers : success(r) \/ non_success(r)) =>
        /\ ret.seq.exc = None
        /\ ret.thr.exc = None
        /\ Range(ret.thr.value) = Range(ret.seq.value)

\* witness: three futures completed out of submission order, one of them a
\* non-success, and both calls returned the two topic words
C1_Witness ==
    /\ pc = "done"
    /\ Len(args.words) = 3
    /\ dt.completed = <<3, 1, 2>>
    /\ \E r \in answers : non_success(r)
    /\ \A r \in answers : success(r) \/ non_success(r)
    /\ Range(ret.thr.value) = {w_pet, w_fur}
    /\ Range(ret.seq.value) = {w_pet, w_fur}

\* C2 (as claimed): with every successful body well formed, a token whose call
\* fails (non-success status or transport failure) makes neither mode raise, and
\* every word of every successful token is in both results.
C2_FailureIsolated ==
    (pc = "done"
        /\ \A r \in answers : success(r) \/ non_success(r) \/ r = ConnectionError) =>
        \A o \in {ret.seq, ret.thr} :
            /\ o.exc = None
            /\ \A r \in answers :
                  success(r) =>
                      \A k \in 1..Len(r.json) : r.json[k].word \in Range(o.value)

(***************************************************************************)
(* Template Engine: nlp_based_sentence, create_sentence.                   *)
(*                                                                         *)
(* doc is what the tagger nlp returns for the template: a sequence of      *)
(* tokens, each with its text and its pos_ tag.  ml is the service's       *)
(* answer to the "means like" query of one topic, by part-of-speech        *)
(* filter.                                                                 *)
(***************************************************************************)
POS == { "NOUN", "VERB", "ADJ", "ADV" }

part_of_speech == [NOUN |-> "n", VERB |-> "v", ADJ |-> "adj", ADV |-> "adv"]

\* the default fallback words the function declares
pos_fallback ==
    [ NOUN |-> << <<"t", "h", "i", "n", "g">>, <<"o", "b", "j", "e", "c", "t">>,
                  <<"i", "t", "e", "m">> >>,
      VERB |-> << <<"d", "o", "e", "s">>, <<"i", "s">> >>,
      ADJ |-> << <<"n", "i", "c", "e">>, <<"g", "o", "o", "d">> >>,
      ADV |-> << <<"q", "u", "i", "c", "k", "l", "y">> >> ]

\* the four get_words_by_topic calls that build pos_map (sequential mode)
fetch_pos_map(ml) ==
    [p \in POS |-> get_words_by_topic(ml[part_of_speech[p]], FALSE)]

\* faulty variant: a word is selected from the front of its pool and left there
RECURSIVE substitute_nopop(_, _, _, _)
substitute_nopop(doc, k, pos_map, generated_sentence) ==
    IF k > Len(doc)
    THEN [generated_sentence |-> generated_sentence, pos_map |-> pos_map]
    ELSE IF doc[k].pos_ \in DOMAIN pos_map /\ pos_map[doc[k].pos_] # <<>>
         THEN substitute_nopop(doc, k + 1, pos_map,
                  Append(generated_sentence, Head(pos_map[doc[k].pos_])))
         ELSE substitute_nopop(doc, k + 1, pos_map,
                  Append(generated_sentence, doc[k].text))

\* `for token in doc`, from the k-th token on
RECURSIVE substitute(_, _, _, _)
substitute(doc, k, pos_map, generated_sentence) ==
    IF k > Len(doc)
    THEN [generated_sentence |-> generated_sentence, pos_map |-> pos_map]
    ELSE IF doc[k].pos_ \in DOMAIN pos_map /\ pos_map[doc[k].pos_] # <<>>
         THEN substitute(doc, k + 1,
                  [pos_map EXCEPT ![doc[k].pos_] = Tail(@)],
                  Append(generated_sentence, Head(pos_map[doc[k].pos_])))
         ELSE substitute(doc, k + 1, pos_map,
                  Append(generated_sentence, doc[k].text))

\* the locals of nlp_based_sentence when it ends
nlp_locals(doc, ml) ==
    LET fetched == fetch_pos_map(ml)
    IN  IF \E p \in POS : fetched[p].exc # None
        THEN [status |-> "raised", exc |-> "ConnectionError"]
        ELSE LET r == substitute(doc, 1, [p \in POS |-> fetched[p].value], <<>>)
             IN  [ status |-> "returned",
                   pos_map |-> r.pos_map,
                   generated_sentence |-> r.generated_sentence,
                   final_sentence |-> join(<<" ">>, r.generated_sentence) ]

\* faulty variant: the joined sentence is lower-cased instead of capitalized
nlp_based_sentence_lower(doc, ml) ==
    LET f == nlp_locals(doc, ml)
    IN  IF f.status = "raised" THEN Raise(f.exc)
        ELSE Return(lower(f.final_sentence))

nlp_based_sentence(doc, ml) ==
    LET f == nlp_locals(doc, ml)
    IN  IF f.status = "raised" THEN Raise(f.exc)
        ELSE Return(capitalize(f.final_sentence))

Token(text, pos_) == [text |-> text, pos_ |-> pos_]

t_The == Token(<<"T", "h", "e">>, "DET")
t_the == Token(<<"t", "h", "e">>, "DET")
t_ADJ == Token(<<"[", "A", "D", "J", "]">>, "ADJ")
t_NOUN == Token(<<"[", "N", "O", "U", "N", "]">>, "NOUN")
t_VERB == Token(<<"[", "V", "E", "R", "B", "]">>, "VERB")
t_ADV == Token(<<"[", "A", "D", "V", "]">>, "ADV")
t_period == Token(<<".">>, "PUNCT")

\* nlp("The [ADJ] [NOUN] [VERB] the [NOUN] [ADV]."): each placeholder is one
\* token tagged with the category it names (as the mocked tagger of
\* src/test.py:78 tags them), the article and the period are not content words
template_sentence ==
    <<t_The, t_ADJ, t_NOUN, t_VERB, t_the, t_NOUN, t_ADV, t_period>>

create_sentence(ml) == nlp_based_sentence(template_sentence, ml)

(***************************************************************************)
(* SpecSentence: create_sentence, and nlp_based_sentence on its template   *)
(* and on every short doc the tagger may return (any tokens, any tags),    *)
(* over mocked vocabularies.                                               *)
(***************************************************************************)
w_runs == <<"r", "u", "n", "s">>
w_eats == <<"e", "a", "t", "s">>
w_big == <<"b", "i", "g">>
w_red == <<"r", "e", "d">>
w_fast == <<"f", "a", "s", "t">>

NotFound == Response(404, <<>>)

Vocabularies ==
    [ n : { NotFound, Response(200, <<>>), Response(200, <<[word |-> w_cat]>>),
            Response(200, <<[word |-> w_cat], [word |-> w_dog]>>), ConnectionError },
      v : { NotFound, Response(200, <<[word |-> w_runs]>>),
            Response(200, <<[word |-> w_runs], [word |-> w_eats]>>), ConnectionError },
      adj : { NotFound, Response(200, <<[word |-> w_big]>>),
              Response(200, <<[word |-> w_big], [word |-> w_red]>>) },
      adv : { NotFound, Response(200, <<[word |-> w_fast]>>) } ]

SentenceTokens == { t_The, t_ADJ, t_NOUN, t_VERB, t_ADV, t_period }

InitSentence ==
    /\ pc = "call"
    /\ args \in
          { [entry |-> e, doc |-> template_sentence, topic |-> w_pet] :
              e \in {"create_sentence", "nlp_based_sentence"} }
          \cup { [entry |-> "nlp_based_sentence", doc |-> d, topic |-> w_pet] :
                   d \in SeqsUpTo(SentenceTokens, MaxSlots) }
    /\ ret = None
    /\ requests_get \in { [ml |-> [t \in {w_pet} |-> voc]] : voc \in Vocabularies }
    /\ dt = NoFrame
    /\ gp = NoFrame
    /\ mn = NoFrame
    /\ ns = NoFrame

CallCreateSentence ==
    /\ pc = "call"
    /\ args.entry = "create_sentence"
    /\ ret' = create_sentence(requests_get.ml[args.topic])
    /\ ns' = nlp_locals(template_sentence, requests_get.ml[args.topic])
    /\ pc' = "done"
    /\ UNCHANGED <<args, requests_get, dt, gp, mn>>

CallNlpBasedSentence ==
    /\ pc = "call"
    /\ args.entry = "nlp_based_sentence"
    /\ ret' = nlp_based_sentence(args.doc, requests_get.ml[args.topic])
    /\ ns' = nlp_locals(args.doc, requests_get.ml[args.topic])
    /\ pc' = "done"
    /\ UNCHANGED <<args, requests_get, dt, gp, mn>>

NextSentence == CallCreateSentence \/ CallNlpBasedSentence

SpecSentence == InitSentence /\ [][NextSentence]_vars

\* what get_words_by_topic fetched for category p in the call that ended
fetched(p) ==
    get_words_by_topic(requests_get.ml[args.topic][part_of_speech[p]], FALSE).value

\* the number of slots of category p among the first i tokens of the doc
slots_upto(p, i) == Cardinality({ j \in 1..i : args.doc[j].pos_ = p })

rendered == pc = "done" /\ ns.status = "returned"

\* C3 (as claimed): when the fetch for a category returns no words, every slot
\* of that category is emitted as a word of that category's default list.
C3_EmptyPoolEmitsDefault ==
    rendered =>
        \A i \in 1..Len(args.doc) :
            (args.doc[i].pos_ \in POS /\ fetched(args.doc[i].pos_) = <<>>) =>
                ns.generated_sentence[i] \in Range(pos_fallback[args.doc[i].pos_])

C10_SequentialDestructive ==
    rendered =>
        /\ Len(ns.generated_sentence) = Len(args.doc)
        /\ \A i \in 1..Len(args.doc) :
              LET p == args.doc[i].pos_
              IN  IF p \in POS /\ slots_upto(p, i) <= Len(fetched(p))
                  THEN ns.generated_sentence[i] = fetched(p)[slots_upto(p, i)]
                  ELSE ns.generated_sentence[i] = args.doc[i].text
        /\ \A p \in POS :
              LET used == IF slots_upto(p, Len(args.doc)) <= Len(fetched(p))
                          THEN slots_upto(p, Len(args.doc))
                          ELSE Len(fetched(p))
              IN  ns.pos_map[p] = SubSeq(fetched(p), used + 1, Len(fetched(p)))

\* witness: two noun slots took the first and the second fetched noun, in slot
\* order, and emptied the pool
C10_Witness ==
    /\ rendered
    /\ args.doc = <<t_NOUN, t_VERB, t_NOUN>>
    /\ fetched("NOUN") = <<w_cat, w_dog>>
    /\ ns.generated_sentence[1] = w_cat
    /\ ns.generated_sentence[3] = w_dog
    /\ ns.pos_map["NOUN"] = <<>>

(***************************************************************************)
(* Paragraph Generator: generate_paragraphs.                               *)
(*                                                                         *)
(* The frame gp holds the locals of one call: n counts the iterations of   *)
(* the outer loop that have ended, paragraph is the list the inner loop    *)
(* fills, at is the loop the call stands in.                               *)
(***************************************************************************)
gp_call(topics, num_paragraphs, use_threads) ==
    [ status |-> "running", at |-> "for", topics |-> topics,
      num_paragraphs |-> num_paragraphs, use_threads |-> use_threads,
      paragraphs |-> <<>>, n |-> 0, paragraph |-> <<>>,
      selected_topic |-> None, exc |-> None ]

\* faulty variant: the sentences of a paragraph are joined without a separator
gp_join_nosep(paragraph) == join(<<>>, paragraph)

\* " ".join(paragraph)
gp_join(paragraph) == join(<<" ">>, paragraph)

\* selected_topic = topics[random.randint(0, len(topics)-1)]: randint raises
\* ValueError on the empty range
GP_SelectTopic ==
    /\ gp.status = "running" /\ gp.at = "for"
    /\ gp.n < gp.num_paragraphs
    /\ IF Len(gp.topics) - 1 < 0
       THEN gp' = [gp EXCEPT !.status = "raised", !.exc = "ValueError"]
       ELSE \E r \in 0..Len(gp.topics) - 1 :
               gp' = [gp EXCEPT !.selected_topic = gp.topics[r + 1],
                                !.paragraph = <<>>, !.at = "range(2)"]
    /\ UNCHANGED <<pc, args, ret, requests_get, dt, mn, ns>>

\* one iteration of `for _ in range(2)`
GP_Sentence ==
    /\ gp.status = "running" /\ gp.at = "range(2)"
    /\ Len(gp.paragraph) < 2
    /\ LET sentence == create_sentence(requests_get.ml[gp.selected_topic])
       IN  IF sentence.exc # None
           THEN gp' = [gp EXCEPT !.status = "raised", !.exc = sentence.exc]
           ELSE gp' = [gp EXCEPT !.paragraph = Append(@, sentence.value)]
    /\ UNCHANGED <<pc, args, ret, requests_get, dt, mn, ns>>

\* paragraphs.append(" ".join(paragraph))
GP_Append ==
    /\ gp.status = "running" /\ gp.at = "range(2)"
    /\ Len(gp.paragraph) >= 2
    /\ gp' = [gp EXCEPT !.paragraphs = Append(@, gp_join(gp.paragraph)),
                        !.n = @ + 1, !.at = "for"]
    /\ UNCHANGED <<pc, args, ret, requests_get, dt, mn, ns>>

\* return paragraphs
GP_Return ==
    /\ gp.status = "running" /\ gp.at = "for"
    /\ gp.n >= gp.num_paragraphs
    /\ gp' = [gp EXCEPT !.status = "returned"]
    /\ UNCHANGED <<pc, args, ret, requests_get, dt, mn, ns>>

generate_paragraphs ==
    \/ GP_SelectTopic
    \/ GP_Sentence
    \/ GP_Append
    \/ GP_Return

(***************************************************************************)
(* SpecParagraphs: generate_paragraphs on every short topic list, the      *)
(* empty one included, over mocked vocabularies.                           *)
(***************************************************************************)
TopicWords == { w_pet, w_fur }

FullVocabulary ==
    [ n |-> Response(200, <<[word |-> w_cat], [word |-> w_dog]>>),
      v |-> Response(200, <<[word |-> w_runs]>>),
      adj |-> Response(200, <<[word |-> w_big]>>),
      adv |-> Response(200, <<[word |-> w_fast]>>) ]

NoVocabulary == [n |-> NotFound, v |-> NotFound, adj |-> NotFound, adv |-> NotFound]

DownVocabulary ==
    [n |-> NotFound, v |-> ConnectionError, adj |-> NotFound, adv |-> NotFound]

InitParagraphs ==
    /\ pc = "in_generate_paragraphs"
    /\ args \in [ topics : SeqsUpTo(TopicWords, MaxTopics),
                  num_paragraphs : 0..MaxParagraphs,
                  use_threads : BOOLEAN ]
    /\ ret = None
    /\ requests_get \in
          { [ml |-> f] :
              f \in [TopicWords -> {FullVocabulary, NoVocabulary, DownVocabulary}] }
    /\ dt = NoFrame
    /\ gp = gp_call(args.topics, args.num_paragraphs, args.use_threads)
    /\ mn = NoFrame
    /\ ns = NoFrame

NextParagraphs == generate_paragraphs

SpecParagraphs == InitParagraphs /\ [][NextParagraphs]_vars

\* the sentence the Template Engine renders for topic t
sentence_of(t) == create_sentence(requests_get.ml[t]).value

\* no query about a topic of the list meets a transport failure
vocabulary_served ==
    \A k \in 1..Len(gp.topics) :
        \A sp \in DOMAIN requests_get.ml[gp.topics[k]] :
            requests_get.ml[gp.topics[k]][sp] # ConnectionError

C5_EmptyTopicsNoRaise ==
    (gp.topics = <<>> /\ gp.num_paragraphs > 0
        /\ gp.status \in {"returned", "raised"}) =>
        /\ gp.status = "returned"
        /\ gp.paragraphs = <<>>

(***************************************************************************)
(* The pipeline: main.                                                     *)
(*                                                                         *)
(* The frame mn holds what the two input() calls return, main's locals,    *)
(* the warnings it logs and what it prints after the banner.  An exception *)
(* no handler catches ends the run at pc = "crashed".                      *)
(***************************************************************************)
num_paragraphs_default == 5

s_yes == <<"y", "e", "s">>

\* filtered_words = clean_topic_input(user_input)
M_Clean ==
    /\ pc = "clean"
    /\ mn' = [mn EXCEPT !.filtered_words = clean_topic_input(mn.user_input)]
    /\ pc' = "determine"
    /\ UNCHANGED <<args, ret, requests_get, dt, gp, ns>>

\* use_threads = input(...).lower() == "yes", then the call of determine_topics
M_Determine ==
    /\ pc = "determine"
    /\ mn' = [mn EXCEPT !.use_threads = (lower(mn.answer) = s_yes)]
    /\ dt' = dt_call(mn.filtered_words, lower(mn.answer) = s_yes)
    /\ pc' = "in_determine_topics"
    /\ UNCHANGED <<args, ret, requests_get, gp, ns>>

\* faulty variant: generation is started whatever determine_topics returned
M_Topics_nocheck ==
    /\ pc = "in_determine_topics"
    /\ dt.status \in {"returned", "raised"}
    /\ IF dt.status = "raised"
       THEN /\ pc' = "crashed"
            /\ UNCHANGED <<mn, gp>>
       ELSE /\ mn' = [mn EXCEPT !.topics = dt.result]
            /\ gp' = gp_call(dt.result, num_paragraphs_default, mn.use_threads)
            /\ pc' = "in_generate_paragraphs"
    /\ UNCHANGED <<args, ret, requests_get, dt, ns>>

\* determine_topics has ended: `if not topics` warns and returns, otherwise
\* generate_paragraphs is called with its default num_paragraphs
M_Topics ==
    /\ pc = "in_determine_topics"
    /\ dt.status \in {"returned", "raised"}
    /\ IF dt.status = "raised"
       THEN /\ pc' = "crashed"
            /\ UNCHANGED <<mn, gp>>
       ELSE IF dt.result = <<>>
            THEN /\ mn' = [mn EXCEPT !.topics = dt.result,
                                     !.log = Append(@, "No valid topics found.")]
                 /\ pc' = "done"
                 /\ UNCHANGED gp
            ELSE /\ mn' = [mn EXCEPT !.topics = dt.result]
                 /\ gp' = gp_call(dt.result, num_paragraphs_default, mn.use_threads)
                 /\ pc' = "in_generate_paragraphs"
    /\ UNCHANGED <<args, ret, requests_get, dt, ns>>

\* generate_paragraphs has ended: the paragraphs are printed, numbered from 1
M_Print ==
    /\ pc = "in_generate_paragraphs"
    /\ gp.status \in {"returned", "raised"}
    /\ IF gp.status = "raised"
       THEN /\ pc' = "crashed"
            /\ UNCHANGED mn
       ELSE /\ mn' = [mn EXCEPT
                        !.paragraphs = gp.paragraphs,
                        !.stdout = [k \in 1..Len(gp.paragraphs) |->
                                      [i |-> k, paragraph |-> gp.paragraphs[k]]]]
            /\ pc' = "done"
    /\ UNCHANGED <<args, ret, requests_get, dt, gp, ns>>

main ==
    \/ M_Clean
    \/ M_Determine
    \/ M_Topics
    \/ M_Print

(***************************************************************************)
(* Spec: one run of main over typed phrases, typed answers and mocked      *)
(* responses.                                                              *)
(***************************************************************************)
s_The == <<"T", "h", "e">>
s_Cat == <<"C", "a", "t">>

Phrases == { join(<<" ">>, ws) : ws \in SeqsUpTo({s_The, s_Cat, w_dog}, MaxPhrase) }

Answers == { s_yes, <<"Y", "E", "S">>, <<"n", "o">> }

MainResponses ==
    { Response(200, <<>>),
      Response(200, <<[word |-> w_pet], [word |-> w_fur]>>),
      Response(404, <<>>),
      ConnectionError }

Init ==
    /\ pc = "clean"
    /\ args = None
    /\ ret = None
    /\ requests_get \in
          { [rel_trg |-> f, ml |-> g] :
              f \in [TopicTokens -> MainResponses],
              g \in [TopicWords -> {FullVocabulary, DownVocabulary}] }
    /\ dt = NoFrame
    /\ gp = NoFrame
    /\ mn \in [ status : {"running"}, user_input : Phrases, answer : Answers,
                filtered_words : {<<>>}, use_threads : {FALSE}, topics : {<<>>},
                paragraphs : {<<>>}, stdout : {<<>>}, log : {<<>>} ]
    /\ ns = NoFrame

Next ==
    \/ main
    \/ determine_topics
    \/ generate_paragraphs

Spec == Init /\ [][Next]_vars

\* C6: once determine_topics has returned an empty list and main has read it,
\* the run has ended normally: the warning is logged, generate_paragraphs was
\* never called, and nothing was printed.
C6_EmptyTopicSetTerminal ==
    (pc \notin {"clean", "determine", "in_determine_topics"}
        /\ dt.status = "returned" /\ dt.result = <<>>) =>
        /\ pc = "done"
        /\ gp = NoFrame
        /\ mn.paragraphs = <<>>
        /\ mn.stdout = <<>>
        /\ mn.log = <<"No valid topics found.">>

\* witness: the threaded run of a two-word phrase ended with the warning, one
\* word answered by a non-success and the other by an empty success
C6_Witness ==
    /\ pc = "done"
    /\ mn.use_threads
    /\ Len(mn.filtered_words) = 2
    /\ requests_get.rel_trg[w_cat] = Response(404, <<>>)
    /\ requests_get.rel_trg[w_dog] = Response(200, <<>>)
    /\ dt.status = "returned" /\ dt.result = <<>>
    /\ mn.log = <<"No valid topics found.">>

====
